---- MODULE Spec2Model ----
(***************************************************************************)
(* Swig: a PostgreSQL-backed job queue (src/swig.go, first package of the  *)
(* file, lines 1-742).  The model has the swig_jobs table, the swig_leader *)
(* table, the advisory lock, and per dispatcher instance its worker loops, *)
(* its leader goroutine and its Stop call.                                 *)
(*                                                                         *)
(* One SQL statement is one atomic step: PostgreSQL runs the claim UPDATE  *)
(* under row locks (FOR UPDATE SKIP LOCKED / re-check of the WHERE clause  *)
(* after a lock wait), so two statements on one row are serialised.        *)
(*                                                                         *)
(* A store call made with a context that is already done fails without     *)
(* touching the database: drivers/pgx.go and drivers/sql.go hand the       *)
(* context to pgxpool / database/sql, which both test ctx.Done() before    *)
(* they take a connection.                                                 *)
(***************************************************************************)
EXTENDS Integers, FiniteSets, Sequences, TLC

\* ---------------------------------------------------------------- bounds
NumInst == 2            \* dispatcher instances (processes)
MaxJobs == 2            \* rows ever inserted into swig_jobs
CoreRows == 1           \* rows inserted under Spec
TimedRows == 1          \* rows inserted under TimedSpec
OptionRows == 1         \* rows inserted under OptionsSpec
MaxBatch == 2           \* items of one AddJobsWithTx call
MaxCalls == 2           \* enqueue calls made on the caller's transaction
RunDelay == 2           \* seconds from the enqueue to the RunAt of a scheduled job
MaxTicks == 2           \* advances of the database clock
MaxNotifCopies == 1     \* copies of one NOTIFY that reach one instance's pool
MaxCancels == 1         \* Start contexts the callers cancel
MaxStops == 1           \* Stop calls the callers make
ConfigMaxWorkers == 1   \* SwigQueueConfig.MaxWorkers given to NewSwig

\* ------------------------------------------------------- program constants
minWorkers == 3             \* swig.go:31
DefaultMaxAttempts == 3     \* swig.go:196  max_attempts ... DEFAULT 3
DefaultPriority == 1        \* swig.go:385  DefaultJobOptions().Priority
StaleSeconds == 300         \* swig.go:146  interval '5 minutes'
leaderTTL == 30             \* swig.go:26

leaderKey == "queue_leader" \* swig.go:25
Default == "default"        \* swig.go:21
Priority == "priority"      \* swig.go:22
Emails == "emails"          \* a caller-named queue (QueueTypes is a string)

\* SQL NULL for the three kinds of nullable column
NullTime == -1
NullInst == 0
NullErr == "NULL"
ShutdownErr == "Job failed due to instance shutdown"   \* swig.go:346
HandlerErr == "boom"                                   \* err.Error() of Process

Inst == 1..NumInst
JobIds == 1..MaxJobs

\* Variant: the pool has as many loops as the configuration says.
PoolSizeAsConfigured(maxWorkers) == maxWorkers

\* Start: workers := config.MaxWorkers; if workers < minWorkers { workers = minWorkers }
PoolSize(maxWorkers) == IF maxWorkers < minWorkers THEN minWorkers ELSE maxWorkers

\* One queue config per instance: instance 1 serves "default", the others "emails".
QueueOf(i) == IF i = 1 THEN Default ELSE Emails

\* worker_id is a UUID generated per processNextJob call (swig.go:553) and never read
\* back: the model keeps only whether the column is NULL.
NullWorker == "NULL"
GenerateWorkerID == "uuid"

\* The worker loops of one instance run the same code on the same queue and carry no
\* identity of their own, so an instance's pool is kept as the number of its loops at
\* each position.  A position is where the loop is in startWorker/processNextJob:
\*   select   at the select of startWorker          wait   in WaitForNotification
\*   sleep    in the one-second error backoff       exited returned from startWorker
\*   handler  inside Process for row job; specific: reached by the targeted claim
At(pc) == [pc |-> pc, job |-> 0, specific |-> FALSE]
InHandler(j, sp) == [pc |-> "handler", job |-> j, specific |-> sp]
LoopStates ==
    {At(pc) : pc \in {"select", "wait", "sleep", "exited"}}
    \cup {InHandler(j, sp) : j \in JobIds, sp \in BOOLEAN}

\* The worker registry: the kinds with a registered handler.  Rows of kind
\* "legacy_email" carry a payload written from another struct than the registered one.
RegisteredKinds == {"send_email", "legacy_email"}

\* json.Unmarshal(payload, worker) returns nil                (swig.go:632)
Unmarshals(kind) == kind # "legacy_email"

RECURSIVE Pow2(_)
Pow2(n) == IF n <= 0 THEN 1 ELSE 2 * Pow2(n - 1)

VARIABLES
    now,         \* NOW() of the database, in seconds
    ticks,       \* clock advances so far
    jobs,        \* swig_jobs: JobIds -> row (status "none": not inserted)
    notif,       \* notif[j][i]: undelivered copies of j's insert NOTIFY at instance i
    started,     \* Start was called
    ctxDone,     \* the context given to Start is cancelled
    shutdown,    \* s.shutdown is closed
    stopPc,      \* where the Stop call is
    stopExpired, \* the context given to Stop is done
    leaderID,    \* s.leaderID (NullInst: "")
    duties,      \* performLeaderDuties goroutine is running
    advisory,    \* holder of pg advisory lock leaderLockID (NullInst: free)
    lease,       \* the rows of swig_leader: [id, leader_id, expires_at, acquired_at]
    loops,       \* loops[i][s]: worker loops of instance i at position s
    invoked,     \* ghost: Process calls per job
    completions, \* ghost: writes of status 'completed' per job
    tx,          \* the caller's transaction handed to AddJobWithTx / AddJobsWithTx
    call,        \* ghost: the AddJob calls made so far and what the last one returned
    swigQueueConfig  \* s.swigQueueConfig: MaxWorkers of the instance's queue config

vars == <<now, ticks, jobs, notif, started, ctxDone, shutdown, stopPc, stopExpired,
          leaderID, duties, advisory, lease, loops, invoked, completions, tx, call,
          swigQueueConfig>>

NoRow == [status |-> "none", kind |-> "send_email", queue |-> Default, priority |-> 0,
          attempts |-> 0, max_attempts |-> DefaultMaxAttempts,
          created_at |-> NullTime, scheduled_for |-> NullTime,
          instance_id |-> NullInst, worker_id |-> NullWorker, locked_at |-> NullTime,
          last_error |-> NullErr, last_error_at |-> NullTime]

\* The caller's transaction (pgx.Tx / *sql.Tx): state "none" (not begun), "open",
\* "aborted" (a statement failed), "committed" or "rolledback"; began: NOW() of the
\* transaction; rows: the rows its INSERTs wrote, visible to others once committed;
\* calls, last: the enqueue calls made on it and the last of them (ghost): its items,
\* what was made to go wrong outside the items, and whether it returned an error.
NoCall == [batch |-> <<>>, fault |-> "none", err |-> FALSE]
NoAddJob == [n |-> 0, item |-> <<>>, fault |-> "none", err |-> FALSE]
NoTx == [state |-> "none", began |-> NullTime, rows |-> <<>>, calls |-> 0, last |-> NoCall]

Init ==
    /\ now = 0
    /\ ticks = 0
    /\ jobs = [j \in JobIds |-> NoRow]
    /\ notif = [j \in JobIds |-> [i \in Inst |-> 0]]
    /\ started = [i \in Inst |-> FALSE]
    /\ ctxDone = [i \in Inst |-> FALSE]
    /\ shutdown = [i \in Inst |-> FALSE]
    /\ stopPc = [i \in Inst |-> "idle"]
    /\ stopExpired = [i \in Inst |-> FALSE]
    /\ leaderID = [i \in Inst |-> NullInst]
    /\ duties = [i \in Inst |-> FALSE]
    /\ advisory = NullInst
    /\ lease = <<>>
    /\ loops = [i \in Inst |-> [s \in LoopStates |-> 0]]
    /\ invoked = [j \in JobIds |-> 0]
    /\ completions = [j \in JobIds |-> 0]
    /\ tx = NoTx
    /\ call = NoAddJob
    /\ swigQueueConfig = [i \in Inst |-> ConfigMaxWorkers]

\* ------------------------------------------------------------ SQL statements

\* Variant: the claims without their status = 'pending' condition.
EligibleAnyStatus(r) == r.status # "none" /\ r.scheduled_for <= now

\* WHERE status = 'pending' AND scheduled_for <= NOW()     (swig.go:570-571, 586-587)
Eligible(r) == r.status = "pending" /\ r.scheduled_for <= now

\* EXISTS (SELECT 1 FROM swig_jobs WHERE queue = 'priority' AND status = 'pending'
\*         AND scheduled_for <= NOW())                     (swig.go:589-594)
PriorityExists == \E j \in JobIds : Eligible(jobs[j]) /\ jobs[j].queue = Priority

\* The rows the subquery of the untargeted claim selects for a worker bound to q.
Candidates(q) ==
    {j \in JobIds :
        /\ Eligible(jobs[j])
        /\ \/ (jobs[j].queue = Priority /\ PriorityExists)
           \/ (jobs[j].queue = q /\ ~PriorityExists)}

\* Variant: ORDER BY queue = 'priority' DESC, created_at (the priority column unused).
SortsBeforeIgnoringPriority(a, b) ==
    LET pa == IF a.queue = Priority THEN 1 ELSE 0
        pb == IF b.queue = Priority THEN 1 ELSE 0
    IN  \/ pa > pb
        \/ pa = pb /\ a.created_at < b.created_at

\* ORDER BY queue = 'priority' DESC, priority DESC, created_at   (swig.go:602-605)
SortsBefore(a, b) ==
    LET pa == IF a.queue = Priority THEN 1 ELSE 0
        pb == IF b.queue = Priority THEN 1 ELSE 0
    IN  \/ pa > pb
        \/ pa = pb /\ a.priority > b.priority
        \/ pa = pb /\ a.priority = b.priority /\ a.created_at < b.created_at

\* LIMIT 1: a first row of the ordered candidates (rows that tie come in any order).
FirstRows(q) ==
    {j \in Candidates(q) : \A k \in Candidates(q) : ~SortsBefore(jobs[k], jobs[j])}

\* Variant: the targeted claim without its status = 'pending' condition.
TargetedMatchAnyStatus(j) == jobs[j].status # "none" /\ jobs[j].scheduled_for <= now

\* Variant: the targeted claim without its scheduled_for <= NOW() condition.
TargetedMatchAnyTime(j) == jobs[j].status = "pending"

\* WHERE id = $3 AND status = 'pending' AND scheduled_for <= NOW()   (swig.go:569-571)
TargetedMatch(j) == Eligible(jobs[j])

\* Variant: the claim sets the status and the attempts but stamps no owner.
AcquireRowNoOwner(r, i) == [r EXCEPT !.status = "processing", !.attempts = @ + 1]

\* SET status = 'processing', instance_id = $1, worker_id = $2, locked_at = NOW(),
\*     attempts = attempts + 1                              (swig.go:564-568, 578-582)
AcquireRow(r, i) ==
    [r EXCEPT !.status = "processing", !.instance_id = i, !.worker_id = GenerateWorkerID,
              !.locked_at = now, !.attempts = @ + 1]

\* Variant: the CASE compares with > instead of >=.
FailedOrPendingStrict(r) == IF r.attempts > r.max_attempts THEN "failed" ELSE "pending"

\* CASE WHEN attempts >= max_attempts THEN 'failed' ELSE 'pending' END
FailedOrPending(r) == IF r.attempts >= r.max_attempts THEN "failed" ELSE "pending"

\* Variant: the failure update sets failed whatever the attempts.
FailureRowAlwaysFailed(r, msg) ==
    [r EXCEPT !.status = "failed", !.last_error = msg, !.last_error_at = now,
              !.instance_id = NullInst, !.worker_id = NullWorker, !.locked_at = NullTime]

\* The failure update of processNextJob                     (swig.go:641-652)
FailureRow(r, msg) ==
    [r EXCEPT !.status = FailedOrPending(r), !.last_error = msg, !.last_error_at = now,
              !.instance_id = NullInst, !.worker_id = NullWorker, !.locked_at = NullTime]

\* Variant: the completed update sets the status and leaves the owner columns.
CompletedRowKeepsOwner(r) == [r EXCEPT !.status = "completed"]

\* Variant: the completed update also resets the error columns.
CompletedRowClearsError(r) ==
    [r EXCEPT !.status = "completed",
              !.instance_id = NullInst, !.worker_id = NullWorker, !.locked_at = NullTime,
              !.last_error = NullErr, !.last_error_at = NullTime]

\* The completed update of processNextJob                   (swig.go:657-663)
CompletedRow(r) ==
    [r EXCEPT !.status = "completed",
              !.instance_id = NullInst, !.worker_id = NullWorker, !.locked_at = NullTime]

\* Variant: the cleanup returns every row to pending, whatever its attempts.
CleanupRowAlwaysPending(r) ==
    [r EXCEPT !.status = "pending",
              !.instance_id = NullInst, !.worker_id = NullWorker, !.locked_at = NullTime]

\* cleanupSQL: the SET clause                              (swig.go:336-350)
CleanupRow(r) ==
    [r EXCEPT !.status = FailedOrPending(r),
              !.instance_id = NullInst, !.worker_id = NullWorker, !.locked_at = NullTime,
              !.last_error = IF r.attempts >= r.max_attempts THEN ShutdownErr ELSE @]

\* Variant: the cleanup without its WHERE instance_id = $1.
CleanupAllRows(i) ==
    [j \in JobIds |-> IF jobs[j].status # "none" THEN CleanupRow(jobs[j]) ELSE jobs[j]]

\* cleanupSQL: UPDATE swig_jobs ... WHERE instance_id = $1  (swig.go:337, 349)
CleanupTable(i) ==
    [j \in JobIds |-> IF jobs[j].status # "none" /\ jobs[j].instance_id = i
                      THEN CleanupRow(jobs[j]) ELSE jobs[j]]

\* Variant: retrySQL without its attempts < max_attempts condition.
RetryMatchesAnyAttempts(r) ==
    /\ r.status = "failed"
    /\ (r.instance_id = NullInst \/ (r.locked_at # NullTime /\ r.locked_at < now - StaleSeconds))
    /\ (r.last_error = NullErr
        \/ (r.last_error_at # NullTime /\ r.last_error_at < now - Pow2(r.attempts)))

\* Variant: retrySQL without its status = 'failed' condition.
RetryMatchesAnyStatus(r) ==
    /\ r.status # "none"
    /\ r.attempts < r.max_attempts
    /\ (r.instance_id = NullInst \/ (r.locked_at # NullTime /\ r.locked_at < now - StaleSeconds))
    /\ (r.last_error = NullErr
        \/ (r.last_error_at # NullTime /\ r.last_error_at < now - Pow2(r.attempts)))

\* The WHERE clause of retrySQL                             (swig.go:142-152)
RetryMatches(r) ==
    /\ r.status = "failed"
    /\ r.attempts < r.max_attempts
    /\ (r.instance_id = NullInst \/ (r.locked_at # NullTime /\ r.locked_at < now - StaleSeconds))
    /\ (r.last_error = NullErr
        \/ (r.last_error_at # NullTime /\ r.last_error_at < now - Pow2(r.attempts)))

\* The SET clause of retrySQL                               (swig.go:133-141)
RetryRow(r) ==
    [r EXCEPT !.status = "pending",
              !.instance_id = NullInst, !.worker_id = NullWorker, !.locked_at = NullTime,
              !.scheduled_for = IF r.attempts > 0 THEN now + Pow2(r.attempts) ELSE now]

\* retrySQL run on table t: the table afterwards             (swig.go:131-153)
RetryApplied(t) ==
    [j \in JobIds |-> IF RetryMatches(t[j]) THEN RetryRow(t[j]) ELSE t[j]]

RetryTable == RetryApplied(jobs)

\* ------------------------------------------------------------------ enqueue

\* The zero values of the fields of JobOptions (swig.go:375-379), which a literal
\* takes for each field it does not name: "", 0 and the zero time.Time (year 1).
ZeroQueue == ""
ZeroPriority == 0
ZeroTime == -1000
ZeroJobOptions == [Queue |-> ZeroQueue, Priority |-> ZeroPriority, RunAt |-> ZeroTime]

\* DefaultJobOptions(); time.Now() is read as the database's NOW().   (swig.go:382-388)
DefaultJobOptions == [Queue |-> Default, Priority |-> DefaultPriority, RunAt |-> now]

\* jobOpts := DefaultJobOptions(); if len(opts) > 0 { jobOpts = opts[0] }   (swig.go:414-417)
JobOpts(opts) == IF Len(opts) > 0 THEN opts[1] ELSE DefaultJobOptions

\* INSERT INTO swig_jobs (kind, queue, payload, priority, scheduled_for, status)
\* VALUES ($1, $2, $3, $4, $5, 'pending'); the other columns take their defaults.
InsertedRow(kind, o) ==
    [NoRow EXCEPT !.status = "pending", !.kind = kind, !.queue = o.Queue,
                  !.priority = o.Priority, !.created_at = now,
                  !.scheduled_for = o.RunAt]

\* Some worker loop of instance i has run LISTEN swig_jobs and is still there.
Listening(i) == \E s \in LoopStates : s.pc # "exited" /\ loops[i][s] > 0

\* The INSERT of AddJob (swig.go:425-444) and the AFTER INSERT trigger's pg_notify
\* (swig.go:211-229).  opts is the variadic argument: <<>> or <<JobOptions>>.
insertSQL(kind, opts) ==
    \E j \in JobIds :
        /\ jobs[j].status = "none"
        /\ \A k \in JobIds : k < j => jobs[k].status # "none"
        /\ jobs' = [jobs EXCEPT ![j] = InsertedRow(kind, JobOpts(opts))]
        /\ notif' = [notif EXCEPT ![j] =
                        [i \in Inst |-> IF Listening(i) THEN MaxNotifCopies ELSE 0]]

\* AddJob with a worker value that has JobName() and serializes, the INSERT succeeding.
AddJob(kind, opts) ==
    /\ insertSQL(kind, opts)
    /\ UNCHANGED <<swigQueueConfig, call, tx, now, ticks, started, ctxDone, shutdown, stopPc, stopExpired, leaderID,
                   duties, advisory, lease, loops, invoked, completions>>

\* ------------------------------------------------- enqueue in a transaction

\* The table with rows inserted, each under the next unused id.
RECURSIVE InsertAll(_, _)
InsertAll(table, rows) ==
    IF rows = <<>> THEN table
    ELSE LET free == {j \in JobIds : table[j].status = "none"}
             j == CHOOSE f \in free : \A k \in free : f <= k
         IN  InsertAll([table EXCEPT ![j] = Head(rows)], Tail(rows))

\* Variant: the INSERT runs on the driver's pool (s.driver.Exec), outside the caller's
\* transaction, and is committed at once.
PoolExec(rows) == [table |-> InsertAll(jobs, rows), pending |-> tx.rows]

\* txAdapter.Exec(ctx, insertSQL, ...): the INSERT runs on the caller's transaction
\* (drivers/pgx.go:39-42, drivers/sql.go:41-44): the table others see is unchanged.
TxExec(rows) == [table |-> jobs, pending |-> tx.rows \o rows]

\* A row inserted inside the transaction: created_at DEFAULT NOW() is the
\* transaction's start time.
TxInsertedRow(kind, o) == [InsertedRow(kind, o) EXCEPT !.created_at = tx.began]

\* One item of an enqueue call: the worker value (its JobName(), whether it has one,
\* whether json.Marshal accepts it) and its options.
Item(kind, o, hasJobName, marshals) ==
    [kind |-> kind, opts |-> o, hasJobName |-> hasJobName, marshals |-> marshals]

\* Variant: the worker value is only asked for its JobName().
BadItemJobNameOnly(it) == ~it.hasJobName

\* The checks an enqueue makes on the worker value before its INSERT: the type
\* assertion on JobName() and json.Marshal (swig.go:410-412, 420-423, 480-482, 497-500).
BadItem(it) == ~it.hasJobName \/ ~it.marshals

\* Variant: the rows of the items before the first one that fails its checks.
RECURSIVE RowsUpToFirstBad(_)
RowsUpToFirstBad(batch) ==
    IF batch = <<>> \/ BadItem(Head(batch)) THEN <<>>
    ELSE <<TxInsertedRow(Head(batch).kind, Head(batch).opts)>> \o RowsUpToFirstBad(Tail(batch))

\* The VALUES tuples AddJobsWithTx builds: the loop returns an error at the first item
\* without JobName() or that does not serialize, before any statement runs
\* (drivers/pgx.go:166-190).
BatchRows(batch) ==
    IF \E n \in 1..Len(batch) : BadItem(batch[n]) THEN <<>>
    ELSE [n \in 1..Len(batch) |-> TxInsertedRow(batch[n].kind, batch[n].opts)]

\* The caller begins a transaction.
Begin ==
    /\ tx.state = "none"
    /\ tx' = [tx EXCEPT !.state = "open", !.began = now]
    /\ UNCHANGED <<swigQueueConfig, call, now, ticks, jobs, notif, started, ctxDone, shutdown, stopPc, stopExpired,
                   leaderID, duties, advisory, lease, loops, invoked, completions>>

\* The enqueue call returned: what the transaction holds afterwards.  A failed INSERT
\* leaves the PostgreSQL transaction aborted.
AfterCall(batch, fault, err, out) ==
    /\ tx' = [tx EXCEPT !.rows = out.pending, !.calls = @ + 1,
                        !.state = IF fault = "exec" /\ err THEN "aborted" ELSE @,
                        !.last = [batch |-> batch, fault |-> fault, err |-> err]]
    /\ jobs' = out.table

\* AddJobWithTx (swig.go:478-522) with one item and the variadic options; fault:
\* "txtype" the driver rejects the transaction value, "exec" the INSERT fails.
AddJobWithTx(it, opts, fault) ==
    /\ tx.state = "open"
    /\ LET ok == ~BadItem(it) /\ fault = "none"
           row == TxInsertedRow(it.kind, JobOpts(opts))
       IN  AfterCall(<<it>>, fault, ~ok, IF ok THEN TxExec(<<row>>) ELSE TxExec(<<>>))
    /\ UNCHANGED <<swigQueueConfig, call, now, ticks, notif, started, ctxDone, shutdown, stopPc, stopExpired,
                   leaderID, duties, advisory, lease, loops, invoked, completions>>

\* AddJobsWithTx (drivers/pgx.go:150-205, drivers/sql.go:161-216, the same code).
AddJobsWithTx(batch, fault) ==
    /\ tx.state = "open"
    /\ IF Len(batch) = 0
       THEN AfterCall(batch, "none", FALSE, TxExec(<<>>))
       ELSE LET rows == IF fault = "none" THEN BatchRows(batch) ELSE <<>>
            IN  AfterCall(batch, fault, rows = <<>>, TxExec(rows))
    /\ UNCHANGED <<swigQueueConfig, call, now, ticks, notif, started, ctxDone, shutdown, stopPc, stopExpired,
                   leaderID, duties, advisory, lease, loops, invoked, completions>>

\* The caller commits: the rows become visible and the AFTER INSERT trigger's
\* notifications are delivered.  COMMIT of an aborted transaction rolls it back.
Commit ==
    /\ tx.state \in {"open", "aborted"}
    /\ IF tx.state = "aborted"
       THEN /\ tx' = [tx EXCEPT !.state = "rolledback"]
            /\ UNCHANGED <<jobs, notif>>
       ELSE /\ tx' = [tx EXCEPT !.state = "committed"]
            /\ jobs' = InsertAll(jobs, tx.rows)
            /\ notif' = [j \in JobIds |->
                  IF jobs[j].status = "none" /\ jobs'[j].status # "none"
                  THEN [i \in Inst |-> IF Listening(i) THEN MaxNotifCopies ELSE 0]
                  ELSE notif[j]]
    /\ UNCHANGED <<swigQueueConfig, call, now, ticks, started, ctxDone, shutdown, stopPc, stopExpired,
                   leaderID, duties, advisory, lease, loops, invoked, completions>>

\* The caller rolls back.
Rollback ==
    /\ tx.state \in {"open", "aborted"}
    /\ tx' = [tx EXCEPT !.state = "rolledback"]
    /\ UNCHANGED <<swigQueueConfig, call, now, ticks, jobs, notif, started, ctxDone, shutdown, stopPc, stopExpired,
                   leaderID, duties, advisory, lease, loops, invoked, completions>>

\* AddJob (swig.go:408-445) with any worker value; fault "exec": s.driver.Exec fails.
AddJobCall(it, opts, fault) ==
    /\ LET ok == ~BadItem(it) /\ fault = "none"
       IN  /\ call' = [n |-> call.n + 1, item |-> it, fault |-> fault, err |-> ~ok]
           /\ IF ok THEN insertSQL(it.kind, opts) ELSE UNCHANGED <<jobs, notif>>
    /\ UNCHANGED <<swigQueueConfig, tx, now, ticks, started, ctxDone, shutdown, stopPc, stopExpired, leaderID,
                   duties, advisory, lease, loops, invoked, completions>>

\* ------------------------------------------------------ start and leadership

\* Variant: the conflict target of the upsert is leader_id.
UpsertOnLeaderId(table, row) ==
    IF \E n \in 1..Len(table) : table[n].leader_id = row.leader_id
    THEN [n \in 1..Len(table) |->
            IF table[n].leader_id = row.leader_id
            THEN [table[n] EXCEPT !.expires_at = row.expires_at]
            ELSE table[n]]
    ELSE Append(table, row)

\* INSERT INTO swig_leader (id, leader_id, expires_at) VALUES ($1, $2, ...)
\* ON CONFLICT (id) DO UPDATE SET leader_id = $2, expires_at = ...   (swig.go:89-95)
\* acquired_at (DEFAULT NOW(), swig.go:236) is written by the INSERT only.
UpsertLeader(table, row) ==
    IF \E n \in 1..Len(table) : table[n].id = row.id
    THEN [n \in 1..Len(table) |->
            IF table[n].id = row.id
            THEN [table[n] EXCEPT !.leader_id = row.leader_id, !.expires_at = row.expires_at]
            ELSE table[n]]
    ELSE Append(table, row)

\* tryBecomeLeader (swig.go:79-107): leaseOk is the outcome of the lease UPSERT.
TryBecomeLeader(i, leaseOk) ==
    IF advisory # NullInst
    THEN UNCHANGED <<leaderID, duties, advisory, lease>>
    ELSE /\ leaderID' = [leaderID EXCEPT ![i] = i]
         /\ IF leaseOk
            THEN /\ lease' = UpsertLeader(lease, [id |-> leaderKey, leader_id |-> i,
                                                  expires_at |-> now + leaderTTL,
                                                  acquired_at |-> now])
                 /\ advisory' = i
                 /\ duties' = [duties EXCEPT ![i] = TRUE]
            ELSE UNCHANGED <<lease, advisory, duties>>

\* Start (swig.go:186-269): one queue config per instance, with MaxWorkers maxWorkers.
Start(i, maxWorkers, leaseOk) ==
    /\ ~started[i]
    /\ maxWorkers = swigQueueConfig[i]
    /\ started' = [started EXCEPT ![i] = TRUE]
    /\ TryBecomeLeader(i, leaseOk)
    /\ loops' = [loops EXCEPT ![i][At("select")] = PoolSize(maxWorkers)]
    /\ UNCHANGED <<swigQueueConfig, call, tx, now, ticks, jobs, notif, ctxDone, shutdown, stopPc, stopExpired,
                   invoked, completions>>

\* The caller cancels the context it gave to Start.
CancelCtx(i) ==
    /\ started[i] /\ ~ctxDone[i]
    /\ Cardinality({k \in Inst : ctxDone[k]}) < MaxCancels
    /\ ctxDone' = [ctxDone EXCEPT ![i] = TRUE]
    /\ UNCHANGED <<swigQueueConfig, call, tx, now, ticks, jobs, notif, started, shutdown, stopPc, stopExpired,
                   leaderID, duties, advisory, lease, loops, invoked, completions>>

\* performLeaderDuties, case <-ticker.C: retryFailedJobs(ctx)   (swig.go:120-123, 129-183)
LeaderTick(i) ==
    /\ duties[i]
    /\ jobs' = IF ctxDone[i] THEN jobs ELSE RetryTable
    /\ UNCHANGED <<swigQueueConfig, call, tx, now, ticks, notif, started, ctxDone, shutdown, stopPc, stopExpired,
                   leaderID, duties, advisory, lease, loops, invoked, completions>>

\* performLeaderDuties, case <-ctx.Done() / case <-s.shutdown   (swig.go:116-119)
LeaderExit(i) ==
    /\ duties[i]
    /\ ctxDone[i] \/ shutdown[i]
    /\ duties' = [duties EXCEPT ![i] = FALSE]
    /\ UNCHANGED <<swigQueueConfig, call, tx, now, ticks, jobs, notif, started, ctxDone, shutdown, stopPc,
                   stopExpired, leaderID, advisory, lease, loops, invoked, completions>>

\* -------------------------------------------------------------- worker loop

\* One loop of instance i moves from position from to position to.
Move(i, from, to) ==
    [loops EXCEPT ![i] = [s \in LoopStates |->
        IF s = from /\ s # to THEN loops[i][s] - 1
        ELSE IF s = to /\ s # from THEN loops[i][s] + 1
        ELSE loops[i][s]]]

\* What acquireAndProcessJob does with the row it was returned (swig.go:625-637):
\* no registered worker for the kind, or a payload that does not unmarshal, is an error
\* return that leaves the row as claimed; otherwise Process(ctx) is called.
AfterAcquire(i, from, j, specific) ==
    IF jobs[j].kind \in RegisteredKinds /\ Unmarshals(jobs[j].kind)
    THEN /\ loops' = Move(i, from, InHandler(j, specific))
         /\ invoked' = [invoked EXCEPT ![j] = @ + 1]
    ELSE /\ loops' = Move(i, from, At("sleep"))
         /\ UNCHANGED invoked

\* One pass of the loop of startWorker up to the end of the untargeted claim:
\*   select { case <-ctx.Done(): return; default: processNextJob }   (swig.go:535-547)
\*   acquireAndProcessJob(ctx, queueType, "")                        (swig.go:575-623, 673)
\* With the context done the loop returns at the select (LoopExit), unless the context
\* ended between the select and the QueryRow: then the claim fails with the context's
\* error, "failed to acquire job" (the first branch below).
ClaimUntargeted(i) ==
    /\ loops[i][At("select")] > 0
    /\ IF ctxDone[i]
       THEN /\ loops' = Move(i, At("select"), At("sleep"))
            /\ UNCHANGED <<jobs, invoked>>
       ELSE IF FirstRows(QueueOf(i)) = {}
       THEN \* no rows: return nil, then WaitForNotification
            /\ loops' = Move(i, At("select"), At("wait"))
            /\ UNCHANGED <<jobs, invoked>>
       ELSE \E j \in FirstRows(QueueOf(i)) :
            /\ jobs' = [jobs EXCEPT ![j] = AcquireRow(jobs[j], i)]
            /\ AfterAcquire(i, At("select"), j, FALSE)
    /\ UNCHANGED <<swigQueueConfig, call, tx, now, ticks, notif, started, ctxDone, shutdown, stopPc, stopExpired,
                   leaderID, duties, advisory, lease, completions>>

\* startWorker: case <-ctx.Done(): return                   (swig.go:537-538)
\* The select has no case for s.shutdown.
LoopExit(i) ==
    /\ loops[i][At("select")] > 0
    /\ ctxDone[i]
    /\ loops' = Move(i, At("select"), At("exited"))
    /\ UNCHANGED <<swigQueueConfig, call, tx, now, ticks, jobs, notif, started, ctxDone, shutdown, stopPc,
                   stopExpired, leaderID, duties, advisory, lease, invoked, completions>>

\* Where processNextJob continues once acquireAndProcessJob returned nil after a job:
\* the untargeted call is followed by WaitForNotification (swig.go:673-679), the
\* targeted call returns to the loop (swig.go:696).
AfterOutcome(specific) == IF specific THEN At("select") ELSE At("wait")

\* Process returned (ok: without error) and the outcome UPDATE ran   (swig.go:637-669)
HandlerReturn(i, j, specific, ok) ==
    /\ loops[i][InHandler(j, specific)] > 0
    /\ IF ctxDone[i]
       THEN \* Exec fails with the context's error: "failed to update ... job"
            /\ loops' = Move(i, InHandler(j, specific), At("sleep"))
            /\ UNCHANGED <<jobs, completions>>
       ELSE /\ loops' = Move(i, InHandler(j, specific), AfterOutcome(specific))
            /\ IF ok
               THEN /\ jobs' = [jobs EXCEPT ![j] = CompletedRow(jobs[j])]
                    /\ completions' = [completions EXCEPT ![j] = @ + 1]
               ELSE /\ jobs' = [jobs EXCEPT ![j] = FailureRow(jobs[j], HandlerErr)]
                    /\ UNCHANGED completions
    /\ UNCHANGED <<swigQueueConfig, call, tx, now, ticks, notif, started, ctxDone, shutdown, stopPc, stopExpired,
                   leaderID, duties, advisory, lease, invoked>>

\* WaitForNotification returned job j's notification: the targeted claim
\* acquireAndProcessJob(ctx, queueType, id)                (swig.go:560-573, 679-697)
WaitNotified(i, j) ==
    /\ loops[i][At("wait")] > 0
    /\ notif[j][i] > 0
    /\ notif' = [notif EXCEPT ![j][i] = @ - 1]
    /\ IF ctxDone[i]
       THEN \* the context ended after the notification was read: QueryRow fails
            /\ loops' = Move(i, At("wait"), At("sleep"))
            /\ UNCHANGED <<jobs, invoked>>
       ELSE IF ~TargetedMatch(j)
       THEN /\ loops' = Move(i, At("wait"), At("select"))
            /\ UNCHANGED <<jobs, invoked>>
       ELSE /\ jobs' = [jobs EXCEPT ![j] = AcquireRow(jobs[j], i)]
            /\ AfterAcquire(i, At("wait"), j, TRUE)
    /\ UNCHANGED <<swigQueueConfig, call, tx, now, ticks, started, ctxDone, shutdown, stopPc, stopExpired,
                   leaderID, duties, advisory, lease, completions>>

\* WaitForNotification returned the context's error: return nil   (swig.go:680-684)
WaitCancelled(i) ==
    /\ loops[i][At("wait")] > 0
    /\ ctxDone[i]
    /\ loops' = Move(i, At("wait"), At("select"))
    /\ UNCHANGED <<swigQueueConfig, call, tx, now, ticks, jobs, notif, started, ctxDone, shutdown, stopPc,
                   stopExpired, leaderID, duties, advisory, lease, invoked, completions>>

\* log.Printf("Error processing job"); time.Sleep(time.Second)   (swig.go:541-545)
BackoffDone(i) ==
    /\ loops[i][At("sleep")] > 0
    /\ loops' = Move(i, At("sleep"), At("select"))
    /\ UNCHANGED <<swigQueueConfig, call, tx, now, ticks, jobs, notif, started, ctxDone, shutdown, stopPc,
                   stopExpired, leaderID, duties, advisory, lease, invoked, completions>>

\* --------------------------------------------------------------------- stop

\* s.activeWorkers.Wait() returns: every loop has returned from startWorker.
AllWorkersDone(i) == \A s \in LoopStates : s.pc # "exited" => loops[i][s] = 0

\* Variant: the cleanup statement runs although the context is done.
CleanupIgnoringCtx(i, done) == CleanupTable(i)

\* cleanupInstanceJobs(ctx) (swig.go:335-372): the table after the call; with a done
\* context the Query fails and no row changes.
CleanupInstanceJobs(i, done) == IF done THEN jobs ELSE CleanupTable(i)

\* Stop up to the select: close(s.shutdown), go activeWorkers.Wait()   (swig.go:272-288)
StopBegin(i) ==
    /\ started[i]
    /\ stopPc[i] = "idle"
    /\ Cardinality({k \in Inst : stopPc[k] # "idle"}) < MaxStops
    /\ shutdown' = [shutdown EXCEPT ![i] = TRUE]
    /\ stopPc' = [stopPc EXCEPT ![i] = "waiting"]
    /\ UNCHANGED <<swigQueueConfig, call, tx, now, ticks, jobs, notif, started, ctxDone, stopExpired, leaderID,
                   duties, advisory, lease, loops, invoked, completions>>

\* Variant: Stop waits on a context without a deadline (the caller gave none and no
\* default is imposed): it never expires.
DeadlineNotImposed(i, expired) ==
    /\ ~expired
    /\ stopExpired' = stopExpired

\* Stop's context has a deadline, the caller's or the default one of
\* defaultShutdownTimeout (swig.go:273-277).  expired: the deadline has passed when the
\* step runs; once passed it stays passed.
Deadline(i, expired) ==
    /\ stopExpired[i] => expired
    /\ stopExpired' = [stopExpired EXCEPT ![i] = expired]

\* case <-done, then cleanupInstanceJobs(ctx)               (swig.go:292-293, 303-306)
StopWorkersDone(i, expired) ==
    /\ stopPc[i] = "waiting"
    /\ AllWorkersDone(i)
    /\ Deadline(i, expired)
    /\ jobs' = CleanupInstanceJobs(i, expired)
    /\ stopPc' = [stopPc EXCEPT ![i] = IF leaderID[i] # NullInst THEN "lease" ELSE "ok"]
    /\ UNCHANGED <<swigQueueConfig, call, tx, now, ticks, notif, started, ctxDone, shutdown, leaderID,
                   duties, advisory, lease, loops, invoked, completions>>

\* case <-ctx.Done(): cleanupInstanceJobs(ctx); return "shutdown timed out"  (swig.go:294-301)
StopTimeout(i) ==
    /\ stopPc[i] = "waiting"
    /\ Deadline(i, TRUE)
    /\ jobs' = CleanupInstanceJobs(i, TRUE)
    /\ stopPc' = [stopPc EXCEPT ![i] = "timeout"]
    /\ UNCHANGED <<swigQueueConfig, call, tx, now, ticks, notif, started, ctxDone, shutdown, leaderID,
                   duties, advisory, lease, loops, invoked, completions>>

\* DELETE FROM swig_leader WHERE leader_id = $1             (swig.go:309-316)
StopDeleteLease(i, expired) ==
    /\ stopPc[i] = "lease"
    /\ Deadline(i, expired)
    /\ lease' = IF expired THEN lease
                ELSE SelectSeq(lease, LAMBDA r : r.leader_id # leaderID[i])
    /\ stopPc' = [stopPc EXCEPT ![i] = "unlock"]
    /\ UNCHANGED <<swigQueueConfig, call, tx, now, ticks, jobs, notif, started, ctxDone, shutdown,
                   leaderID, duties, advisory, loops, invoked, completions>>

\* SELECT pg_advisory_unlock($1); return nil                (swig.go:318-331)
StopUnlock(i, expired) ==
    /\ stopPc[i] = "unlock"
    /\ Deadline(i, expired)
    /\ advisory' = IF ~expired /\ advisory = i THEN NullInst ELSE advisory
    /\ stopPc' = [stopPc EXCEPT ![i] = "ok"]
    /\ UNCHANGED <<swigQueueConfig, call, tx, now, ticks, jobs, notif, started, ctxDone, shutdown,
                   leaderID, duties, lease, loops, invoked, completions>>

\* The process of instance i exits after its context was cancelled and its goroutines
\* have returned, without Stop.  PostgreSQL releases a session's advisory locks when
\* the session ends; the rows the session wrote stay.
ProcessExit(i) ==
    /\ started[i] /\ ctxDone[i] /\ stopPc[i] = "idle"
    /\ AllWorkersDone(i) /\ ~duties[i]
    /\ advisory = i
    /\ advisory' = NullInst
    /\ UNCHANGED <<swigQueueConfig, call, tx, now, ticks, jobs, notif, started, ctxDone,
                   shutdown, stopPc, stopExpired, leaderID, duties, lease, loops, invoked,
                   completions>>

\* -------------------------------------------------------------------- clock

\* The database clock advances by a second, or past the 5-minute staleness window.
TickSteps == {1, StaleSeconds + 1}

Tick(d) ==
    /\ ticks < MaxTicks
    /\ ticks' = ticks + 1
    /\ now' = now + d
    /\ UNCHANGED <<swigQueueConfig, call, tx, jobs, notif, started, ctxDone, shutdown, stopPc, stopExpired,
                   leaderID, duties, advisory, lease, loops, invoked, completions>>

\* ------------------------------------------------------------ specification

\* The enqueue calls of the callers: the handler's kind and the variadic options.
EnqueueInputs ==
    { <<"send_email", <<>>>>,
      <<"send_email", <<[Queue |-> Priority, Priority |-> DefaultPriority, RunAt |-> now]>>>> }

RowsInserted == Cardinality({j \in JobIds : jobs[j].status # "none"})

\* The steps of the worker loops, of the leader goroutine and of Stop.
WorkerStep ==
    \/ \E i \in Inst : ClaimUntargeted(i)
    \/ \E i \in Inst, j \in JobIds, sp \in BOOLEAN, ok \in BOOLEAN : HandlerReturn(i, j, sp, ok)
    \/ \E i \in Inst, j \in JobIds : WaitNotified(i, j)

CancelledStep ==
    \/ \E i \in Inst : LoopExit(i)
    \/ \E i \in Inst : WaitCancelled(i)
    \/ \E i \in Inst : BackoffDone(i)
    \/ \E i \in Inst : LeaderExit(i)

StopStep ==
    \/ \E i \in Inst : StopBegin(i)
    \/ \E i \in Inst, expired \in BOOLEAN : StopWorkersDone(i, expired)
    \/ \E i \in Inst : StopTimeout(i)
    \/ \E i \in Inst, expired \in BOOLEAN : StopDeleteLease(i, expired)
    \/ \E i \in Inst, expired \in BOOLEAN : StopUnlock(i, expired)

\* Spec: two instances over CoreRows rows, with cancellation and Stop, within one
\* instant of the database clock.
Next ==
    \/ RowsInserted < CoreRows /\ \E e \in EnqueueInputs : AddJob(e[1], e[2])
    \/ \E i \in Inst : Start(i, ConfigMaxWorkers, TRUE)
    \/ \E i \in Inst : CancelCtx(i)
    \/ \E i \in Inst : LeaderTick(i)
    \/ WorkerStep
    \/ CancelledStep
    \/ StopStep

Spec == Init /\ [][Next]_vars

\* ClaimSpec: two instances over MaxJobs rows; no context is cancelled, Stop is not
\* called and the clock stands still.
NextClaims ==
    \/ \E e \in EnqueueInputs : AddJob(e[1], e[2])
    \/ \E i \in Inst : Start(i, ConfigMaxWorkers, TRUE)
    \/ \E i \in Inst : LeaderTick(i)
    \/ WorkerStep

ClaimSpec == Init /\ [][NextClaims]_vars

\* TimedSpec: two instances over TimedRows rows while the clock advances; no context
\* is cancelled and Stop is not called.
NextTimed ==
    \/ RowsInserted < TimedRows /\ \E e \in EnqueueInputs : AddJob(e[1], e[2])
    \/ \E i \in Inst : Start(i, ConfigMaxWorkers, TRUE)
    \/ \E i \in Inst : LeaderTick(i)
    \/ WorkerStep
    \/ \E d \in TickSteps : Tick(d)

TimedSpec == Init /\ [][NextTimed]_vars

\* The option literals of the callers under OptionsSpec: none, all three fields, only
\* RunAt (the scheduled job of the documentation), only Queue.
OptionInputs ==
    { <<"send_email", <<>>>>,
      <<"send_email", <<[Queue |-> Default, Priority |-> DefaultPriority,
                         RunAt |-> now + RunDelay]>>>>,
      <<"send_email", <<[ZeroJobOptions EXCEPT !.RunAt = now + RunDelay]>>>>,
      <<"send_email", <<[ZeroJobOptions EXCEPT !.Queue = Priority]>>>> }

\* OptionsSpec: two instances over OptionRows rows enqueued with the option literals
\* above, while the clock advances.
NextOptions ==
    \/ RowsInserted < OptionRows /\ \E e \in OptionInputs : AddJob(e[1], e[2])
    \/ \E i \in Inst : Start(i, ConfigMaxWorkers, TRUE)
    \/ \E i \in Inst : LeaderTick(i)
    \/ WorkerStep
    \/ \E d \in TickSteps : Tick(d)

OptionsSpec == Init /\ [][NextOptions]_vars

\* LeaderSpec: two instances with no jobs: Start with either outcome of the lease
\* upsert, cancellation, Stop and the clock.  The goroutines of an instance are
\* scheduled: its leader goroutine, its worker loops and its Stop call take their next
\* step when they can.  The callers' steps (Start, cancel, calling Stop) and the clock
\* are under no obligation.
LoopStep(i) ==
    ClaimUntargeted(i) \/ LoopExit(i) \/ WaitCancelled(i) \/ BackoffDone(i)

StopContinues(i) ==
    \/ \E expired \in BOOLEAN : StopWorkersDone(i, expired)
    \/ \E expired \in BOOLEAN : StopDeleteLease(i, expired)
    \/ \E expired \in BOOLEAN : StopUnlock(i, expired)

AfterStart ==
    \/ \E i \in Inst : CancelCtx(i)
    \/ \E i \in Inst : LeaderTick(i)
    \/ \E i \in Inst : ClaimUntargeted(i)
    \/ CancelledStep
    \/ StopStep
    \/ \E d \in TickSteps : Tick(d)

NextLeader ==
    \/ \E i \in Inst, leaseOk \in BOOLEAN : Start(i, ConfigMaxWorkers, leaseOk)
    \/ AfterStart

LeaderSpec ==
    /\ Init /\ [][NextLeader]_vars
    /\ \A i \in Inst : WF_vars(LoopStep(i))
    /\ \A i \in Inst : WF_vars(LeaderTick(i) \/ LeaderExit(i))
    /\ \A i \in Inst : WF_vars(StopContinues(i))

\* FailoverSpec: as LeaderSpec, with every lease upsert succeeding.
NextFailover ==
    \/ \E i \in Inst : Start(i, ConfigMaxWorkers, TRUE)
    \/ AfterStart

FailoverSpec ==
    /\ Init /\ [][NextFailover]_vars
    /\ \A i \in Inst : WF_vars(LoopStep(i))
    /\ \A i \in Inst : WF_vars(LeaderTick(i) \/ LeaderExit(i))
    /\ \A i \in Inst : WF_vars(StopContinues(i))

\* RecoverySpec: two instances over CoreRows rows, with cancellation and the clock and
\* without Stop: an instance whose context is cancelled ends without the shutdown
\* cleanup.
NextRecovery ==
    \/ RowsInserted < CoreRows /\ \E e \in EnqueueInputs : AddJob(e[1], e[2])
    \/ \E i \in Inst : Start(i, ConfigMaxWorkers, TRUE)
    \/ \E i \in Inst : CancelCtx(i)
    \/ \E i \in Inst : LeaderTick(i)
    \/ WorkerStep
    \/ CancelledStep
    \/ \E d \in TickSteps : Tick(d)

RecoverySpec == Init /\ [][NextRecovery]_vars

\* The enqueue calls made on the caller's transaction under TxSpec.  Their rows carry
\* TxPriority, which no other enqueue of the model uses.
TxPriority == 5
TxOptions == [Queue |-> Default, Priority |-> TxPriority, RunAt |-> now]
TxItems ==
    { Item("send_email", TxOptions, TRUE, TRUE),
      Item("send_email", TxOptions, FALSE, TRUE),
      Item("send_email", TxOptions, TRUE, FALSE) }
TxBatches == UNION {[1..n -> TxItems] : n \in 0..MaxBatch}
TxFaults == {"none", "txtype", "exec"}

\* Rows the open transaction will insert if it commits.
PendingRows == IF tx.state = "open" THEN Len(tx.rows) ELSE 0

\* Another call may be made, and the rows it would add stay within the ids of the model.
TxRoom(n) == tx.calls < MaxCalls /\ RowsInserted + PendingRows + n <= MaxJobs

\* TxSpec: one caller transaction with single and batch enqueues, committed or rolled
\* back, beside plain enqueues and two running instances.
NextTx ==
    \/ RowsInserted < CoreRows /\ PendingRows < MaxJobs /\ AddJob("send_email", <<>>)
    \/ Begin
    \/ TxRoom(1) /\ \E it \in TxItems, f \in TxFaults : AddJobWithTx(it, <<it.opts>>, f)
    \/ \E b \in TxBatches, f \in TxFaults : TxRoom(Len(b)) /\ AddJobsWithTx(b, f)
    \/ Commit
    \/ Rollback
    \/ \E i \in Inst : Start(i, ConfigMaxWorkers, TRUE)
    \/ WorkerStep

TxSpec == Init /\ [][NextTx]_vars

\* The worker values handed to AddJob under EnqueueSpec: with or without JobName(),
\* serializable or not.
EnqueueItems ==
    {Item("send_email", DefaultJobOptions, h, m) : h \in BOOLEAN, m \in BOOLEAN}
EnqueueFaults == {"none", "exec"}

\* EnqueueSpec: the producers' calls, valid and invalid: AddJob, and AddJobWithTx on a
\* caller transaction that is committed or rolled back, while instances start.
NextEnqueue ==
    \/ /\ call.n < MaxCalls /\ RowsInserted + PendingRows < MaxJobs
       /\ \E it \in EnqueueItems, f \in EnqueueFaults : AddJobCall(it, <<>>, f)
    \/ Begin
    \/ TxRoom(1) /\ \E it \in TxItems, f \in TxFaults : AddJobWithTx(it, <<it.opts>>, f)
    \/ Commit
    \/ Rollback
    \/ \E i \in Inst : Start(i, ConfigMaxWorkers, TRUE)

EnqueueSpec == Init /\ [][NextEnqueue]_vars

\* The rows AddJob calls made at time c leave in the table: the three queues with two
\* priorities and RunAt the time of the call, and a job of the priority queue with
\* RunAt RunDelay seconds later.
OrderRowsAt(c) ==
    { [NoRow EXCEPT !.status = "pending", !.queue = q, !.priority = p,
                    !.created_at = c, !.scheduled_for = c] :
          q \in {Default, Priority, Emails}, p \in {DefaultPriority, DefaultPriority + 1} }
    \cup { [NoRow EXCEPT !.status = "pending", !.queue = Priority,
                         !.priority = DefaultPriority,
                         !.created_at = c, !.scheduled_for = c + RunDelay] }

\* The tables MaxJobs such calls leave: ids are given in the order of the calls.
OrderTables ==
    {t \in [JobIds -> OrderRowsAt(0) \cup OrderRowsAt(1)] :
        /\ t[1].created_at = 0
        /\ \A j \in JobIds, k \in JobIds : j < k => t[j].created_at <= t[k].created_at}

\* The state after the producers enqueued MaxJobs jobs, at times 0 and 1, before any
\* instance was started.
OrderInit ==
    /\ now = 1
    /\ ticks = 0
    /\ jobs \in OrderTables
    /\ notif = [j \in JobIds |-> [i \in Inst |-> 0]]
    /\ started = [i \in Inst |-> FALSE]
    /\ ctxDone = [i \in Inst |-> FALSE]
    /\ shutdown = [i \in Inst |-> FALSE]
    /\ stopPc = [i \in Inst |-> "idle"]
    /\ stopExpired = [i \in Inst |-> FALSE]
    /\ leaderID = [i \in Inst |-> NullInst]
    /\ duties = [i \in Inst |-> FALSE]
    /\ advisory = NullInst
    /\ lease = <<>>
    /\ loops = [i \in Inst |-> [s \in LoopStates |-> 0]]
    /\ invoked = [j \in JobIds |-> 0]
    /\ completions = [j \in JobIds |-> 0]
    /\ tx = NoTx
    /\ call = NoAddJob
    /\ swigQueueConfig = [i \in Inst |-> ConfigMaxWorkers]

\* OrderSpec: two instances, bound to different queues, started over a backlog of
\* rows of mixed queue, priority, age and schedule, while the clock advances by
\* seconds.  No notification is pending, so every claim is the untargeted one.
NextOrder ==
    \/ \E i \in Inst : Start(i, ConfigMaxWorkers, TRUE)
    \/ \E i \in Inst : ClaimUntargeted(i)
    \/ \E i \in Inst, j \in JobIds, ok \in BOOLEAN : HandlerReturn(i, j, FALSE, ok)
    \/ Tick(1)

OrderSpec == OrderInit /\ [][NextOrder]_vars

\* The enqueue calls under KindSpec: a kind with a registered worker, a kind with none,
\* and a kind whose payload the registered worker does not unmarshal.
KindInputs == { <<k, <<>>>> : k \in {"send_email", "send_sms", "legacy_email"} }

\* KindSpec: two instances over CoreRows rows of these kinds; no context is cancelled,
\* Stop is not called and the clock stands still.
NextKinds ==
    \/ RowsInserted < CoreRows /\ \E e \in KindInputs : AddJob(e[1], e[2])
    \/ \E i \in Inst : Start(i, ConfigMaxWorkers, TRUE)
    \/ WorkerStep
    \/ \E i \in Inst : BackoffDone(i)

KindSpec == Init /\ [][NextKinds]_vars

\* The MaxWorkers values of the queue configs under PoolSpec: negative, zero, below,
\* at and above minWorkers.
WorkerConfigs == {-1, 0, 1, minWorkers, minWorkers + 1}

\* The state after NewSwig was given a queue config per instance.
PoolInit ==
    /\ now = 0
    /\ ticks = 0
    /\ jobs = [j \in JobIds |-> NoRow]
    /\ notif = [j \in JobIds |-> [i \in Inst |-> 0]]
    /\ started = [i \in Inst |-> FALSE]
    /\ ctxDone = [i \in Inst |-> FALSE]
    /\ shutdown = [i \in Inst |-> FALSE]
    /\ stopPc = [i \in Inst |-> "idle"]
    /\ stopExpired = [i \in Inst |-> FALSE]
    /\ leaderID = [i \in Inst |-> NullInst]
    /\ duties = [i \in Inst |-> FALSE]
    /\ advisory = NullInst
    /\ lease = <<>>
    /\ loops = [i \in Inst |-> [s \in LoopStates |-> 0]]
    /\ invoked = [j \in JobIds |-> 0]
    /\ completions = [j \in JobIds |-> 0]
    /\ tx = NoTx
    /\ call = NoAddJob
    /\ swigQueueConfig \in [Inst -> WorkerConfigs]

\* PoolSpec: two instances, each with its own MaxWorkers, are started and cancelled;
\* there are no jobs.
NextPool ==
    \/ \E i \in Inst, m \in WorkerConfigs : Start(i, m, TRUE)
    \/ \E i \in Inst : ClaimUntargeted(i)
    \/ \E i \in Inst : CancelCtx(i)
    \/ CancelledStep

PoolSpec == PoolInit /\ [][NextPool]_vars

\* LeaseSpec: the steps of LeaderSpec, and instances whose process exits without Stop.
NextLease ==
    \/ NextLeader
    \/ \E i \in Inst : ProcessExit(i)

LeaseSpec == Init /\ [][NextLease]_vars

\* FailingSpec: two instances over CoreRows rows whose handler returns an error every
\* time, while the clock advances.  The goroutines are scheduled and notifications
\* that were sent are delivered to a loop that waits: a loop that can run its claim runs
\* it, a handler that was called returns, a waiting loop receives a pending
\* notification, the leader's ticker fires.
NextFailing ==
    \/ RowsInserted < CoreRows /\ \E e \in EnqueueInputs : AddJob(e[1], e[2])
    \/ \E i \in Inst : Start(i, ConfigMaxWorkers, TRUE)
    \/ \E i \in Inst : LeaderTick(i)
    \/ \E i \in Inst : ClaimUntargeted(i)
    \/ \E i \in Inst, j \in JobIds, sp \in BOOLEAN : HandlerReturn(i, j, sp, FALSE)
    \/ \E i \in Inst, j \in JobIds : WaitNotified(i, j)
    \/ \E d \in TickSteps : Tick(d)

FailingSpec ==
    /\ Init /\ [][NextFailing]_vars
    /\ \A i \in Inst : WF_vars(ClaimUntargeted(i))
    /\ \A i \in Inst, j \in JobIds, sp \in BOOLEAN : WF_vars(HandlerReturn(i, j, sp, FALSE))
    /\ \A i \in Inst, j \in JobIds : WF_vars(WaitNotified(i, j))
    /\ \A i \in Inst : WF_vars(LeaderTick(i))

\* The enqueue calls under ScheduledSpec: jobs of the instances' own queue and of the
\* priority queue with RunAt RunDelay seconds after the call (03-configuration.mdx:96-102).
ScheduledInputs ==
    { <<"send_email", <<[Queue |-> q, Priority |-> DefaultPriority,
                         RunAt |-> now + RunDelay]>>>> : q \in {Default, Priority} }

\* ScheduledSpec: two instances over CoreRows scheduled rows while the clock advances by
\* seconds, with the scheduling of FailingSpec: a loop that can run its claim runs it, a
\* handler that was called returns, a waiting loop receives a pending notification.
NextScheduled ==
    \/ RowsInserted < CoreRows /\ \E e \in ScheduledInputs : AddJob(e[1], e[2])
    \/ \E i \in Inst : Start(i, ConfigMaxWorkers, TRUE)
    \/ \E i \in Inst : LeaderTick(i)
    \/ WorkerStep
    \/ Tick(1)

ScheduledSpec ==
    /\ Init /\ [][NextScheduled]_vars
    /\ \A i \in Inst : WF_vars(ClaimUntargeted(i))
    /\ \A i \in Inst, j \in JobIds, sp \in BOOLEAN :
          WF_vars(\E ok \in BOOLEAN : HandlerReturn(i, j, sp, ok))
    /\ \A i \in Inst, j \in JobIds : WF_vars(WaitNotified(i, j))
    /\ \A i \in Inst : WF_vars(LeaderTick(i))

\* The rows swig_jobs can hold under its CHECK constraint on status (swig.go:205-207),
\* written by any client of the table: each status, attempts below and at max_attempts,
\* with or without an owner, with or without a recorded error; inserted at time 0.
TableRows ==
    { [NoRow EXCEPT !.status = st, !.priority = DefaultPriority, !.attempts = a,
                    !.created_at = 0, !.scheduled_for = 0,
                    !.instance_id = o, !.worker_id = IF o = NullInst THEN NullWorker ELSE GenerateWorkerID,
                    !.locked_at = IF o = NullInst THEN NullTime ELSE 0,
                    !.last_error = e, !.last_error_at = IF e = NullErr THEN NullTime ELSE 0] :
          st \in {"pending", "processing", "completed", "failed", "scheduled"},
          a \in {0, 1, DefaultMaxAttempts}, o \in {NullInst, 1}, e \in {NullErr, HandlerErr} }

\* The state with MaxJobs such rows, or fewer, in the table and no instance started.
TableInit ==
    /\ now = 0
    /\ ticks = 0
    /\ jobs \in [JobIds -> TableRows \cup {NoRow}]
    /\ notif = [j \in JobIds |-> [i \in Inst |-> 0]]
    /\ started = [i \in Inst |-> FALSE]
    /\ ctxDone = [i \in Inst |-> FALSE]
    /\ shutdown = [i \in Inst |-> FALSE]
    /\ stopPc = [i \in Inst |-> "idle"]
    /\ stopExpired = [i \in Inst |-> FALSE]
    /\ leaderID = [i \in Inst |-> NullInst]
    /\ duties = [i \in Inst |-> FALSE]
    /\ advisory = NullInst
    /\ lease = <<>>
    /\ loops = [i \in Inst |-> [s \in LoopStates |-> 0]]
    /\ invoked = [j \in JobIds |-> 0]
    /\ completions = [j \in JobIds |-> 0]
    /\ tx = NoTx
    /\ call = NoAddJob
    /\ swigQueueConfig = [i \in Inst |-> ConfigMaxWorkers]

\* RetrySpec: the leader's recovery tick over such tables while the clock advances; the
\* worker loops take no step.
NextRetry ==
    \/ \E i \in Inst : Start(i, ConfigMaxWorkers, TRUE)
    \/ \E i \in Inst : LeaderTick(i)
    \/ \E d \in TickSteps : Tick(d)

RetrySpec == TableInit /\ [][NextRetry]_vars

\* StopSpec: the steps of Spec with the scheduling of the Stop call: its select returns
\* when the barrier has drained or when the deadline of its context passes, and each
\* statement it then runs returns.  A handler that was called need not return, and a
\* worker loop is under no obligation.
StopSelect(i) ==
    \/ \E expired \in BOOLEAN : StopWorkersDone(i, expired)
    \/ StopTimeout(i)

StopSpec ==
    /\ Init /\ [][Next]_vars
    /\ \A i \in Inst : WF_vars(StopSelect(i))
    /\ \A i \in Inst : WF_vars(\E expired \in BOOLEAN : StopDeleteLease(i, expired))
    /\ \A i \in Inst : WF_vars(\E expired \in BOOLEAN : StopUnlock(i, expired))

\* FairSpec: the steps of ClaimSpec over CoreRows rows, with the scheduling the Go
\* runtime gives: a loop that can run its untargeted claim runs it, and a handler that
\* was called returns.  Nothing makes a notification arrive: WaitForNotification takes
\* whichever pool connection is free (drivers/pgx.go:130-147), which need not be one
\* that ran LISTEN, and the database/sql driver opens a listener that listens on no
\* channel (drivers/sql.go:134-157).
NextFair ==
    \/ RowsInserted < CoreRows /\ \E e \in EnqueueInputs : AddJob(e[1], e[2])
    \/ \E i \in Inst : Start(i, ConfigMaxWorkers, TRUE)
    \/ \E i \in Inst : LeaderTick(i)
    \/ WorkerStep

FairSpec ==
    /\ Init /\ [][NextFair]_vars
    /\ \A i \in Inst : WF_vars(ClaimUntargeted(i))
    /\ \A i \in Inst, j \in JobIds, sp \in BOOLEAN :
          WF_vars(\E ok \in BOOLEAN : HandlerReturn(i, j, sp, ok))

\* ------------------------------------------------------------------- claims

\* Worker loops, over all instances, that are inside Process for row j.
RECURSIVE HoldersUpTo(_, _)
HoldersUpTo(j, n) ==
    IF n = 0 THEN 0
    ELSE loops[n][InHandler(j, TRUE)] + loops[n][InHandler(j, FALSE)] + HoldersUpTo(j, n - 1)

Holders(j) == HoldersUpTo(j, NumInst)

\* C1: a step that hands row j to a claimer hands it to exactly one loop, and is one
\* pending -> processing transition of j: j was eligible and held by nobody, afterwards
\* it is processing with attempts one higher, and no other row is claimed by the step.
C1_SingleClaimPerTransition ==
    [][\A j \in JobIds : invoked'[j] # invoked[j] =>
          /\ invoked'[j] = invoked[j] + 1
          /\ Eligible(jobs[j]) /\ Holders(j) = 0
          /\ jobs'[j].status = "processing"
          /\ jobs'[j].attempts = jobs[j].attempts + 1
          /\ Holders(j)' = 1
          /\ \A k \in JobIds \ {j} : jobs'[k] = jobs[k] /\ invoked'[k] = invoked[k]]_vars

\* Two rows of the priority queue, which every loop of every instance competes for,
\* were claimed once each, by loops of different instances.
C1_Witness ==
    /\ \A j \in {1, 2} : /\ jobs[j].status = "processing" /\ jobs[j].queue = Priority
                         /\ jobs[j].attempts = 1 /\ Holders(j) = 1
    /\ jobs[1].instance_id # jobs[2].instance_id

\* C2: at most one handler invocation per job is in progress, over all loops of all
\* instances, whatever Stop and its cleanup do.
C2_OneHandlerPerJob == \A j \in JobIds : Holders(j) <= 1

\* Stop timed out on an instance one of whose loops is still inside the handler of a
\* row, while a loop of the other instance stands at its untargeted claim.
C2_Witness ==
    \E i \in Inst, j \in JobIds, sp \in BOOLEAN, k \in Inst :
        /\ stopPc[i] = "timeout" /\ loops[i][InHandler(j, sp)] = 1
        /\ k # i /\ loops[k][At("select")] > 0 /\ ~ctxDone[k] /\ jobs[j].queue = Priority

\* Some worker loop that serves queue q is running: every loop serves the priority
\* queue besides its own.
RunningLoopFor(q) == \E i \in Inst : (q = Priority \/ QueueOf(i) = q) /\ Listening(i)

\* C3: an eligible pending job whose queue has a running worker loop is eventually
\* claimed, whether or not any notification arrives.
C3_EventuallyClaimed ==
    \A j \in JobIds :
        [](Eligible(jobs[j]) /\ RunningLoopFor(jobs[j].queue)
             => <>(jobs[j].status = "processing"))

\* C4: a job claimed after a recorded handler failure is claimed at least
\* 2^(attempts at the failure) seconds after the failure was recorded.
C4_BackoffBeforeRetry ==
    \A j \in JobIds :
        jobs[j].status = "processing" /\ jobs[j].last_error_at # NullTime
            => jobs[j].locked_at - jobs[j].last_error_at >= Pow2(jobs[j].attempts - 1)

\* C5: the step in which Stop times out leaves every row the instance held in
\* processing pending or failed, by its attempts, with its ownership cleared.
C5_TimeoutCleansRows ==
    [][\A i \in Inst : stopPc[i] = "waiting" /\ stopPc'[i] = "timeout" =>
          \A j \in JobIds : jobs[j].status = "processing" /\ jobs[j].instance_id = i =>
              /\ jobs'[j].status = FailedOrPending(jobs[j])
              /\ jobs'[j].instance_id = NullInst
              /\ jobs'[j].worker_id = NullWorker
              /\ jobs'[j].locked_at = NullTime]_vars

\* C6: once the shutdown signal of an instance is closed, a loop of the instance that
\* leaves the select of startWorker leaves it by returning.
C6_LoopsExitOnShutdown ==
    [][\A i \in Inst : shutdown[i] /\ loops'[i][At("select")] < loops[i][At("select")] =>
          loops'[i][At("exited")] = loops[i][At("exited")] + 1]_vars

\* C7: every write of status completed is the first one for its job and takes the row
\* from processing to completed.
C7_CompletedOnce ==
    [][\A j \in JobIds : completions'[j] # completions[j] =>
          /\ completions[j] = 0 /\ completions'[j] = 1
          /\ jobs[j].status = "processing"
          /\ jobs'[j].status = "completed"]_vars

\* A job completed at its second attempt, after a Stop call has timed out.
C7_Witness ==
    \E j \in JobIds, i \in Inst :
        /\ jobs[j].status = "completed" /\ completions[j] = 1 /\ jobs[j].attempts = 2
        /\ stopPc[i] = "timeout"

\* C8: attempts <= max_attempts for every row.
C8_AttemptsBounded ==
    \A j \in JobIds : jobs[j].status # "none" => jobs[j].attempts <= jobs[j].max_attempts

\* A row claimed for the last time it may be: processing with attempts = max_attempts.
C8_Witness ==
    \E j \in JobIds :
        jobs[j].status = "processing" /\ jobs[j].attempts = jobs[j].max_attempts

\* C9: the handler is invoked at most max_attempts times per job.
C9_InvocationsBounded == \A j \in JobIds : invoked[j] <= jobs[j].max_attempts

\* A job whose handler ran max_attempts times and whose row ended failed.
C9_Witness ==
    \E j \in JobIds : invoked[j] = jobs[j].max_attempts /\ jobs[j].status = "failed"

\* C10: a processing row has instance_id, worker_id and locked_at set.
C10_ProcessingHasOwner ==
    \A j \in JobIds : jobs[j].status = "processing" =>
        /\ jobs[j].instance_id # NullInst
        /\ jobs[j].worker_id # NullWorker
        /\ jobs[j].locked_at # NullTime

\* A row claimed by the targeted claim on its second attempt is processing, owned by an
\* instance whose Stop has timed out.
C10_Witness ==
    \E j \in JobIds :
        /\ jobs[j].status = "processing" /\ jobs[j].attempts = 2
        /\ jobs[j].instance_id # NullInst
        /\ stopPc[IF jobs[j].instance_id = NullInst THEN 1 ELSE jobs[j].instance_id] = "timeout"
        /\ loops[IF jobs[j].instance_id = NullInst THEN 1 ELSE jobs[j].instance_id]
                [InHandler(j, TRUE)] = 1

\* A row has no owner: instance_id, worker_id and locked_at are NULL.
Unowned(r) ==
    r.instance_id = NullInst /\ r.worker_id = NullWorker /\ r.locked_at = NullTime

\* C11: every pending, failed or completed row has instance_id, worker_id and
\* locked_at all NULL.
C11_SettledRowsUnowned ==
    \A j \in JobIds :
        jobs[j].status \in {"pending", "failed", "completed"} => Unowned(jobs[j])

\* A row that was claimed and never failed in a handler is pending again without an
\* owner: the shutdown cleanup released it.
C11_Witness ==
    \E j \in JobIds :
        /\ jobs[j].status = "pending" /\ jobs[j].attempts = 1
        /\ jobs[j].last_error = NullErr /\ Unowned(jobs[j])

\* C12: a step that claims a row (its attempts grow) is taken at or after the row's
\* scheduled_for, and a row that is processing was locked at or after it.
C12_NeverClaimedEarly ==
    [][\A j \in JobIds :
          /\ jobs'[j].attempts > jobs[j].attempts => jobs[j].scheduled_for <= now
          /\ jobs'[j].status = "processing" =>
                jobs'[j].scheduled_for <= jobs'[j].locked_at]_vars

\* A job scheduled for later than its insert is processing: the untargeted claim took
\* it at or after its time, and no copy of its insert notification is outstanding.
C12_Witness ==
    \E j \in JobIds, i \in Inst :
        /\ jobs[j].scheduled_for > jobs[j].created_at
        /\ jobs[j].status = "processing" /\ jobs[j].locked_at >= jobs[j].scheduled_for
        /\ Listening(i) /\ notif[j][i] = 0 /\ loops[i][InHandler(j, FALSE)] = 1

\* C13: a row that is failed with attempts >= max_attempts stays failed, with the
\* same attempts, in every step: no leader tick requeues it and no claim takes it.
C13_ExhaustedStaysFailed ==
    [][\A j \in JobIds :
          jobs[j].status = "failed" /\ jobs[j].attempts >= jobs[j].max_attempts
              => jobs'[j].status = "failed" /\ jobs'[j].attempts = jobs[j].attempts]_vars

\* A row is failed with its attempts exhausted, its backoff window has passed, and the
\* leader goroutine is running its ticks.
C13_Witness ==
    \E j \in JobIds, i \in Inst :
        /\ jobs[j].status = "failed" /\ jobs[j].attempts = jobs[j].max_attempts
        /\ jobs[j].last_error_at < now - Pow2(jobs[j].attempts)
        /\ duties[i] /\ loops[i][At("select")] > 0

\* The instances whose leaderID is not "".
BelievesLeader == {i \in Inst : leaderID[i] # NullInst}

\* Start was called on the instance and Stop has not returned.
Running(i) == started[i] /\ stopPc[i] \notin {"ok", "timeout"}

\* C14: at most one instance has a non-empty leaderID.
C14_AtMostOneLeader == Cardinality(BelievesLeader) <= 1

\* C15: the swig_leader row exists if and only if some running instance has a
\* non-empty leaderID.
C15_LeaseIffLeader ==
    (lease # <<>>) <=> (\E i \in Inst : Running(i) /\ leaderID[i] # NullInst)

\* Stop of the leader has returned its timeout error and the swig_leader row still
\* names that instance.
C15_Witness ==
    \E i \in Inst :
        stopPc[i] = "timeout" /\ lease # <<>> /\ lease[1].leader_id = i /\ advisory = i

\* The leader's Stop has returned, or its context was cancelled and its goroutines are
\* gone; its lease is deleted or expired.
LeaderGone(i) ==
    /\ leaderID[i] # NullInst /\ ~duties[i]
    /\ stopPc[i] \in {"ok", "timeout"} \/ (ctxDone[i] /\ AllWorkersDone(i))
    /\ lease = <<>> \/ lease[1].expires_at < now

\* The instance runs: Start was called, Stop was not, its context is not cancelled.
KeepsRunning(k) == started[k] /\ stopPc[k] = "idle" /\ ~ctxDone[k]

\* C16: once the leader is gone, eventually some running instance runs the leader's
\* duties, unless the other instance does not keep running.
C16_Failover ==
    \A i \in Inst : \A k \in Inst \ {i} :
        [](LeaderGone(i) /\ KeepsRunning(k)
             => <>((\E l \in Inst : Running(l) /\ duties[l]) \/ ~KeepsRunning(k)))

\* The instance that owns row j is gone: its context is cancelled and all its worker
\* loops have returned.
OwnerDead(j) ==
    \E i \in Inst : jobs[j].instance_id = i /\ ctxDone[i] /\ AllWorkersDone(i)

\* Some instance runs the leader's duties with a live context.
LeaderAlive == \E l \in Inst : duties[l] /\ ~ctxDone[l]

\* Row j is processing, its owner is gone and its lock is older than the window.
Stranded(j) ==
    /\ jobs[j].status = "processing" /\ OwnerDead(j)
    /\ jobs[j].locked_at < now - StaleSeconds

\* C17: a processing row whose owner is gone and whose locked_at is older than the
\* staleness window is a row the leader's recovery tick returns to pending: while a
\* leader is alive it satisfies the WHERE clause of the tick's UPDATE.
C17_StaleRowReclaimed ==
    \A j \in JobIds : Stranded(j) /\ LeaderAlive => RetryMatches(jobs[j])

\* C18: an AddJobsWithTx call on n items adds n rows to the caller's transaction or
\* none: none, with an error, if an item lacks JobName() or does not serialize, if the
\* driver rejects the transaction or if the INSERT fails; all n, without error,
\* otherwise; an empty batch adds nothing and returns nil.  No row is visible before
\* the commit, and the commit makes exactly the transaction's rows visible.
C18_BatchAllOrNothing ==
    [][/\ tx'.calls = tx.calls + 1 =>
            LET c == tx'.last
                n == Len(c.batch)
                wrote == Len(tx'.rows) - Len(tx.rows)
                bad == \E k \in 1..n : BadItem(c.batch[k])
            IN  /\ wrote \in {0, n}
                /\ (n = 0) => (~c.err /\ wrote = 0)
                /\ (n > 0 /\ (bad \/ c.fault # "none")) => (c.err /\ wrote = 0)
                /\ (n > 0 /\ ~bad /\ c.fault = "none") => (~c.err /\ wrote = n)
                /\ jobs' = jobs
       /\ (tx.state = "open" /\ tx'.state = "committed") =>
            Cardinality({j \in JobIds : jobs'[j].status # "none"})
                = RowsInserted + Len(tx.rows)
       /\ (tx.state \in {"open", "aborted"} /\ tx'.state = "rolledback") => jobs' = jobs
      ]_vars

\* A batch of MaxBatch items went through and was committed: its rows are in the table.
C18_Witness ==
    /\ tx.state = "committed"
    /\ Len(tx.last.batch) = MaxBatch /\ ~tx.last.err
    /\ Cardinality({j \in JobIds : jobs[j].status # "none" /\ jobs[j].priority = TxPriority})
         >= MaxBatch

\* The rows of the table that were enqueued through the caller's transaction.
TxRowsVisible == {j \in JobIds : jobs[j].status # "none" /\ jobs[j].priority = TxPriority}

\* C19: the rows enqueued in the caller's transaction are in the table, where the
\* workers' claim statements find them, exactly when the transaction is committed:
\* while it is open, and after a rollback, the table holds none of them, so no worker
\* holds or has run one; after the commit it holds all of them.
C19_VisibleIffCommitted ==
    /\ tx.state = "committed" => Cardinality(TxRowsVisible) = Len(tx.rows)
    /\ tx.state # "committed" =>
         /\ TxRowsVisible = {}
         /\ \A j \in JobIds : Holders(j) > 0 \/ invoked[j] > 0 =>
                jobs[j].priority # TxPriority

\* A transaction that enqueued a job was rolled back while a worker was running and
\* had claimed and run another row.
C19_Witness ==
    /\ tx.state = "rolledback" /\ Len(tx.rows) > 0
    /\ \E i \in Inst : started[i]
    /\ \E j \in JobIds : invoked[j] > 0 /\ tx.began <= jobs[j].created_at

\* C20: every row has the defaults for the option fields the enqueue call left unset.
\* No call of OptionsSpec names an empty queue or a priority other than
\* DefaultPriority, so every row has a non-empty queue and priority DefaultPriority.
C20_UnsetFieldsDefault ==
    \A j \in JobIds : jobs[j].status # "none" =>
        jobs[j].queue # ZeroQueue /\ jobs[j].priority = DefaultPriority

\* A row enqueued with only RunAt set is in the table, with the zero values of the
\* fields the call left unset.
C20_Witness ==
    \E j \in JobIds :
        /\ jobs[j].status # "none" /\ jobs[j].scheduled_for > jobs[j].created_at
        /\ jobs[j].queue = ZeroQueue /\ jobs[j].priority = ZeroPriority

\* C21: an AddJob or AddJobWithTx call whose worker value has no JobName() or does not
\* serialize, or whose transaction the driver cannot adopt, returns an error and
\* inserts nothing: the table, the notifications and the rows written on the
\* transaction are as before the call.
C21_InvalidEnqueueInsertsNothing ==
    [][/\ (call'.n # call.n /\ (~call'.item.hasJobName \/ ~call'.item.marshals)) =>
            (call'.err /\ jobs' = jobs /\ notif' = notif)
       /\ (/\ tx'.calls # tx.calls /\ Len(tx'.last.batch) = 1
           /\ \/ ~tx'.last.batch[1].hasJobName \/ ~tx'.last.batch[1].marshals
              \/ tx'.last.fault = "txtype") =>
            (tx'.last.err /\ jobs' = jobs /\ notif' = notif /\ tx'.rows = tx.rows)
      ]_vars

\* An AddJob with an unserializable worker value and an AddJobWithTx with a
\* transaction of the wrong type both returned an error; the transaction was then
\* committed and the table is empty.
C21_Witness ==
    /\ call.n > 0 /\ call.err /\ call.item.hasJobName /\ ~call.item.marshals
    /\ tx.state = "committed" /\ tx.last.err /\ tx.last.fault = "txtype"
    /\ \A j \in JobIds : jobs[j].status = "none"

\* The reference selection for a worker bound to queue q: the rows that are pending
\* and due; of these the rows of the priority queue if there is one, else the rows of
\* q; of these the rows of the highest priority; of these the oldest.
RefDue == {j \in JobIds : jobs[j].status = "pending" /\ jobs[j].scheduled_for <= now}
RefPool(q) ==
    IF \E j \in RefDue : jobs[j].queue = "priority"
    THEN {j \in RefDue : jobs[j].queue = "priority"}
    ELSE {j \in RefDue : jobs[j].queue = q}
RefTop(q) == {j \in RefPool(q) : \A k \in RefPool(q) : jobs[k].priority <= jobs[j].priority}
RefWinners(q) == {j \in RefTop(q) : \A k \in RefTop(q) : jobs[j].created_at <= jobs[k].created_at}

\* C22: the untargeted claim of a loop bound to queue q claims a winner of the
\* reference selection, and finds no row (the loop goes to wait for a notification)
\* only when the reference selection is empty.
C22_UntargetedClaimMatchesReference ==
    [][\A i \in Inst :
          /\ \A j \in JobIds :
                loops'[i][InHandler(j, FALSE)] > loops[i][InHandler(j, FALSE)] =>
                    /\ j \in RefWinners(QueueOf(i))
                    /\ jobs'[j].status = "processing" /\ jobs'[j].instance_id = i
                    /\ \A k \in JobIds \ {j} : jobs'[k] = jobs[k]
          /\ loops'[i][At("wait")] > loops[i][At("wait")] =>
                (RefPool(QueueOf(i)) = {} \/ loops'[i][At("select")] >= loops[i][At("select")])
      ]_vars

\* Instance 1, bound to queue default, holds the newer row 2 of higher priority while
\* the older row 1 of its queue is still pending and due.
C22_Witness ==
    /\ jobs[1].queue = Default /\ jobs[2].queue = Default
    /\ jobs[1].created_at < jobs[2].created_at /\ jobs[1].priority < jobs[2].priority
    /\ jobs[1].status = "pending" /\ jobs[1].attempts = 0
    /\ loops[1][InHandler(2, FALSE)] = 1

\* C23: at every claim, by the untargeted statement or by the targeted statement that
\* follows a notification: if a pending, due row of the priority queue exists the
\* claimed row is of the priority queue, and no pending, due row of the claimed row's
\* queue has a higher priority.
C23_PriorityPreemptsAtEveryClaim ==
    [][\A j \in JobIds : invoked'[j] = invoked[j] + 1 =>
          /\ (\E k \in JobIds : Eligible(jobs[k]) /\ jobs[k].queue = Priority) =>
                jobs[j].queue = Priority
          /\ \A k \in JobIds :
                (Eligible(jobs[k]) /\ jobs[k].queue = jobs[j].queue) =>
                    jobs[k].priority <= jobs[j].priority
      ]_vars

\* A loop holds a row of queue default that it claimed by the targeted statement while
\* a row of the priority queue, inserted before that claim, is still pending.
C23_Witness ==
    \E i \in Inst, j \in JobIds, k \in JobIds :
        /\ loops[i][InHandler(j, TRUE)] > 0 /\ jobs[j].queue = Default
        /\ jobs[k].queue = Priority /\ jobs[k].status = "pending" /\ jobs[k].attempts = 0
        /\ jobs[k].created_at <= jobs[j].locked_at /\ jobs[k].scheduled_for <= jobs[j].locked_at

\* C24: a row does not remain in processing once the loop that claimed it is done with
\* it: while no context is cancelled, a processing row is in the hands of a loop (its
\* handler is running), whatever its kind and payload.
C24_ClaimedRowIsHandled ==
    \A j \in JobIds : jobs[j].status = "processing" => Holders(j) > 0

\* A row of a kind with no registered worker is processing while every loop of the
\* instance that claimed it stands at its claim again or waits for a notification.
C24_Witness ==
    \E j \in JobIds, i \in Inst :
        /\ jobs[j].status = "processing" /\ jobs[j].kind \notin RegisteredKinds
        /\ jobs[j].instance_id = i /\ jobs[j].last_error = NullErr
        /\ loops[i][At("select")] + loops[i][At("wait")] = PoolSize(ConfigMaxWorkers)

\* The worker loops of instance i, at any position.
RECURSIVE SumLoops(_, _)
SumLoops(i, S) ==
    IF S = {} THEN 0
    ELSE LET s == CHOOSE x \in S : TRUE IN loops[i][s] + SumLoops(i, S \ {s})

LoopCount(i) == SumLoops(i, LoopStates)

\* C25: a started instance has 3 worker loops if the MaxWorkers of its queue config is
\* below 3 (zero and negative values included) and MaxWorkers loops otherwise, all of
\* them launched by Start; an instance that was not started has none.
C25_PoolIsMaxOfConfigAnd3 ==
    \A i \in Inst :
        LoopCount(i) = IF ~started[i] THEN 0
                       ELSE IF swigQueueConfig[i] < 3 THEN 3 ELSE swigQueueConfig[i]

\* An instance configured with a negative MaxWorkers runs 3 loops and one configured
\* with 4 runs 4, all waiting for notifications.
C25_Witness ==
    \E i \in Inst, k \in Inst :
        /\ swigQueueConfig[i] < 0 /\ loops[i][At("wait")] = 3
        /\ swigQueueConfig[k] = 4 /\ loops[k][At("wait")] = 4

\* C26: the leader lease table holds at most one row, whichever instances start, stop,
\* exit and take over leadership.
C26_AtMostOneLeaseRow == Len(lease) <= 1

\* The lease row of an instance whose process has exited was overwritten by the
\* instance that took the advisory lock after it.
C26_Witness ==
    \E i \in Inst, k \in Inst :
        /\ i # k
        /\ leaderID[i] = i /\ ctxDone[i] /\ ~duties[i]
        /\ advisory = k /\ Len(lease) = 1 /\ lease[1].leader_id = k
        /\ lease[1].acquired_at + leaderTTL < lease[1].expires_at

\* C27: a job whose handler always fails ends failed, with attempts = max_attempts and
\* last_error the handler's message: a pending row that a started instance serves
\* (its queue is the instance's queue or the priority queue) is eventually so.
C27_AlwaysFailingEndsFailed ==
    \A j \in JobIds :
        []((/\ jobs[j].status = "pending"
            /\ \E i \in Inst : started[i] /\ jobs[j].queue \in {QueueOf(i), Priority})
           => <>(/\ jobs[j].status = "failed"
                 /\ jobs[j].attempts = jobs[j].max_attempts
                 /\ jobs[j].last_error = HandlerErr))

\* The failure update as such: a step in which a handler's failure is recorded on row j
\* sets failed exactly when attempts >= max_attempts and pending otherwise, writes
\* last_error and last_error_at and clears instance_id, worker_id and locked_at; and a
\* failed row has attempts = max_attempts.
C27_FailureUpdate ==
    [][\A j \in JobIds :
          (jobs[j].status = "processing" /\ jobs'[j].status \in {"pending", "failed"}) =>
              /\ jobs'[j].status = "failed" <=> jobs[j].attempts >= 3
              /\ jobs'[j].last_error = HandlerErr /\ jobs'[j].last_error_at = now
              /\ Unowned(jobs'[j]) /\ jobs'[j].attempts = jobs[j].attempts
              /\ jobs'[j].status = "failed" => jobs'[j].attempts = 3]_vars

\* The row has failed for the second time and is pending again; every loop of the one
\* started instance waits for a notification and none is pending.
C27_Witness ==
    \E j \in JobIds, i \in Inst :
        /\ jobs[j].status = "pending" /\ jobs[j].attempts = 2
        /\ jobs[j].last_error = HandlerErr
        /\ started[i] /\ jobs[j].queue \in {QueueOf(i), Priority}
        /\ loops[i][At("wait")] = PoolSize(ConfigMaxWorkers)
        /\ \A k \in Inst : notif[j][k] = 0 /\ (k # i => ~started[k])

\* C28: when a handler returns, its outcome is recorded on the row, also when the
\* worker's context was cancelled while it ran: after the step in which the loop leaves
\* the handler of row j, j is completed, or pending or failed with last_error set; it
\* is not processing.
C28_OutcomeRecordedAfterCancel ==
    [][\A j \in JobIds : Holders(j)' < Holders(j) =>
          \/ jobs'[j].status = "completed"
          \/ jobs'[j].status \in {"pending", "failed"} /\ jobs'[j].last_error # NullErr
      ]_vars

\* The context of the instance was cancelled while a handler ran; the handler has
\* returned, no loop holds the row and the row is still processing, owned by the
\* instance.
C28_Witness ==
    \E j \in JobIds, i \in Inst :
        /\ jobs[j].status = "processing" /\ jobs[j].instance_id = i
        /\ ctxDone[i] /\ invoked[j] > 0 /\ Holders(j) = 0
        /\ stopPc[i] = "idle"

\* C29: a loop whose context is cancelled while it is at its claim or in its
\* notification wait does not go into the error backoff: in a step in which a loop of
\* an instance with a cancelled context leaves the claim or the wait, no loop of the
\* instance enters the one-second sleep.
C29_CancelIsNotAnError ==
    [][\A i \in Inst :
          (/\ ctxDone[i]
           /\ \/ loops'[i][At("select")] < loops[i][At("select")]
              \/ loops'[i][At("wait")] < loops[i][At("wait")]) =>
              loops'[i][At("sleep")] <= loops[i][At("sleep")]
      ]_vars

\* A loop of an instance with a cancelled context sleeps in the error backoff although
\* no handler was ever called: the error it logged is the cancelled claim.
C29_Witness ==
    \E i \in Inst :
        /\ ctxDone[i] /\ loops[i][At("sleep")] > 0
        /\ \A j \in JobIds : invoked[j] = 0

\* C30: a loop goes to wait for a notification only from an untargeted claim that
\* found no row: in a step in which a loop of instance i enters the wait, a loop of i
\* leaves its claim and no row is there for a worker of i's queue to claim.
C30_WaitsOnlyAfterEmptyClaim ==
    [][\A i \in Inst : loops'[i][At("wait")] > loops[i][At("wait")] =>
          /\ loops'[i][At("select")] < loops[i][At("select")]
          /\ Candidates(QueueOf(i)) = {}
      ]_vars

\* Every loop of a started instance waits for a notification and none is pending for
\* it, while a row its untargeted claim would take is pending and due.
C30_Witness ==
    \E i \in Inst :
        /\ started[i] /\ loops[i][At("wait")] = PoolSize(ConfigMaxWorkers)
        /\ Candidates(QueueOf(i)) # {}
        /\ \A j \in JobIds : notif[j][i] = 0

\* C31: a job enqueued with RunAt after its insert, once its RunAt has passed and while
\* a worker loop for its queue is running, is eventually handed to its handler.
C31_ScheduledJobEventuallyRuns ==
    \A j \in JobIds :
        []((/\ jobs[j].status = "pending" /\ jobs[j].scheduled_for > jobs[j].created_at
            /\ jobs[j].scheduled_for <= now /\ RunningLoopFor(jobs[j].queue))
              => <>(invoked[j] > 0))

\* The RunAt of a scheduled job has passed, the job was never claimed, and every loop of
\* the started instance that serves its queue waits for a notification while none is
\* pending.
C31_Witness ==
    \E j \in JobIds, i \in Inst :
        /\ jobs[j].status = "pending" /\ jobs[j].attempts = 0
        /\ jobs[j].scheduled_for > jobs[j].created_at /\ jobs[j].scheduled_for <= now
        /\ QueueOf(i) = jobs[j].queue
        /\ loops[i][At("wait")] = PoolSize(ConfigMaxWorkers)
        /\ \A k \in Inst : notif[j][k] = 0

\* C32: a row held in processing is held by an instance whose worker loops are bound to
\* the row's queue, unless the row is of the priority queue: neither the untargeted nor
\* the targeted claim hands a loop a row of another non-priority queue.
C32_ClaimedByOwnQueueOnly ==
    \A j \in JobIds : jobs[j].status = "processing" /\ jobs[j].queue # Priority =>
        \E i \in Inst : jobs[j].instance_id = i /\ QueueOf(i) = jobs[j].queue

\* A loop of an instance bound to queue emails is inside the handler of a row of queue
\* default, which it claimed by the targeted statement after the row's notification.
C32_Witness ==
    \E i \in Inst, j \in JobIds :
        /\ QueueOf(i) = Emails /\ jobs[j].queue = Default
        /\ loops[i][InHandler(j, TRUE)] = 1
        /\ jobs[j].status = "processing" /\ jobs[j].instance_id = i

\* Instance i has a row in swig_leader.
HasLease(i) == \E n \in 1..Len(lease) : lease[n].leader_id = i

\* C33: a Start that found the advisory lock free and left no lease row of the instance
\* (its lease write failed) leaves the lock free, starts no leader goroutine and leaves
\* leaderID empty; and Stop goes on to the lease deletion and the advisory unlock only
\* for an instance that has a lease row.
C33_FailedLeaseWriteIsFollower ==
    [][\A i \in Inst :
          /\ (~started[i] /\ started'[i] /\ advisory = NullInst /\ ~HasLease(i)') =>
                /\ advisory' = NullInst
                /\ ~duties'[i]
                /\ leaderID'[i] = NullInst
          /\ (stopPc[i] # "lease" /\ stopPc'[i] = "lease") => HasLease(i)
      ]_vars

\* Stop of an instance whose lease write failed stands before its DELETE on swig_leader:
\* leaderID is set, the table has no row, the advisory lock is free and the instance
\* never ran the leader goroutine.
C33_Witness ==
    \E i \in Inst :
        /\ stopPc[i] = "lease" /\ leaderID[i] # NullInst
        /\ lease = <<>> /\ advisory = NullInst /\ ~duties[i]

\* Stop has returned on instance i, with nil or with the timeout error.
StopReturned(i) == stopPc[i] \in {"ok", "timeout"}

\* C34: when Stop has returned on an instance, swig_leader has no row of the instance
\* and the instance does not hold the advisory lock; and an instance that is started
\* after the Stop of the other one returned acquires leadership.
C34_StopReleasesLeadership ==
    [][\A i \in Inst :
          /\ StopReturned(i)' => ~HasLease(i)' /\ advisory' # i
          /\ \A k \in Inst :
                (k # i /\ StopReturned(i) /\ ~started[k] /\ started'[k]) =>
                    advisory' = k /\ duties'[k]
      ]_vars

\* Stop of the leader has returned the timeout error; the other instance runs, is not
\* leader, and the advisory lock is still held by the stopped instance.
C34_Witness ==
    \E i \in Inst, k \in Inst :
        /\ k # i /\ stopPc[i] = "timeout" /\ HasLease(i) /\ advisory = i
        /\ started[k] /\ ~ctxDone[k] /\ leaderID[k] = NullInst /\ ~duties[k]

\* C35: a recovery tick that changes the table leaves a table that a second tick at the
\* same clock leaves as it is, and the rows it changed were failed with
\* attempts < max_attempts.
C35_RecoveryTickIdempotent ==
    [][jobs' # jobs =>
          /\ RetryTable' = jobs'
          /\ \A j \in JobIds : jobs'[j] # jobs[j] =>
                jobs[j].status = "failed" /\ jobs[j].attempts < jobs[j].max_attempts
      ]_vars

\* A tick has requeued a row that had failed at its first attempt: it is pending,
\* unowned, and scheduled 2^attempts seconds after the tick.
C35_Witness ==
    \E j \in JobIds :
        /\ jobs[j].status = "pending" /\ jobs[j].attempts = 1
        /\ jobs[j].scheduled_for = now + Pow2(jobs[j].attempts)
        /\ jobs[j].last_error = HandlerErr /\ Unowned(jobs[j])

\* C36: the step that records a completion leaves last_error and last_error_at of the
\* row as they were; when the handler call that succeeded was the job's first, both are
\* NULL afterwards.
C36_CompletionKeepsLastError ==
    [][\A j \in JobIds : completions'[j] # completions[j] =>
          /\ jobs'[j].status = "completed"
          /\ jobs'[j].last_error = jobs[j].last_error
          /\ jobs'[j].last_error_at = jobs[j].last_error_at
          /\ invoked[j] = 1 =>
                jobs'[j].last_error = NullErr /\ jobs'[j].last_error_at = NullTime
      ]_vars

\* A job failed at its first attempt and succeeded at its second, later one: it is
\* completed with the first failure's message and time.
C36_Witness ==
    \E j \in JobIds :
        /\ jobs[j].status = "completed" /\ jobs[j].attempts = 2 /\ invoked[j] = 2
        /\ jobs[j].last_error = HandlerErr
        /\ jobs[j].last_error_at # NullTime /\ jobs[j].last_error_at < now

\* C37: every failed row has attempts >= max_attempts, every pending row has
\* attempts < max_attempts, and the recovery tick's UPDATE would change no row.
C37_FailedIffExhausted ==
    /\ \A j \in JobIds :
          /\ jobs[j].status = "failed" => jobs[j].attempts >= jobs[j].max_attempts
          /\ jobs[j].status = "pending" => jobs[j].attempts < jobs[j].max_attempts
    /\ RetryTable = jobs

\* The shutdown cleanup has failed a row at its last attempt while the leader goroutine
\* of the other instance is running with a live context.
C37_Witness ==
    \E j \in JobIds, i \in Inst :
        /\ jobs[j].status = "failed" /\ jobs[j].last_error = ShutdownErr
        /\ jobs[j].attempts = jobs[j].max_attempts
        /\ duties[i] /\ ~ctxDone[i] /\ stopPc[i] = "idle"

\* C38: a row that is completed is completed after every step: no claim, outcome
\* write, recovery tick or shutdown cleanup changes its status.
C38_CompletedIsTerminal ==
    [][\A j \in JobIds : jobs[j].status = "completed" => jobs'[j].status = "completed"]_vars

\* A row is completed; the Stop of one instance has run its shutdown cleanup with a live
\* context, and the leader goroutine of the other instance is running.
C38_Witness ==
    \E j \in JobIds, i \in Inst, k \in Inst :
        /\ jobs[j].status = "completed" /\ completions[j] = 1
        /\ i # k /\ stopPc[i] = "ok" /\ ~stopExpired[i]
        /\ duties[k] /\ ~ctxDone[k] /\ loops[k][At("select")] > 0

\* C39: once Stop has returned on an instance, no step makes a row processing under
\* that instance's instance_id.
C39_NoClaimAfterStop ==
    [][\A i \in Inst : StopReturned(i) =>
          \A j \in JobIds :
              jobs'[j].status = "processing" /\ jobs'[j].instance_id = i =>
                  jobs[j].status = "processing" /\ jobs[j].instance_id = i
      ]_vars

\* Stop has returned its timeout error on an instance whose context is live; one of its
\* loops is inside the handler of a row it took by the untargeted claim and the others
\* stand at their claim or wait.
C39_Witness ==
    \E i \in Inst, j \in JobIds :
        /\ stopPc[i] = "timeout" /\ ~ctxDone[i]
        /\ jobs[j].status = "processing" /\ jobs[j].instance_id = i
        /\ loops[i][InHandler(j, FALSE)] = 1
        /\ loops[i][At("select")] + loops[i][At("wait")] = PoolSize(ConfigMaxWorkers) - 1

\* C40: a Stop call that was made returns, whatever the handlers and the worker loops
\* do; it returns the timeout error only when the deadline of its context has passed,
\* and it goes on to the success path only when every worker loop has returned.
C40_StopAlwaysReturns ==
    /\ \A i \in Inst : [](stopPc[i] # "idle" => <>StopReturned(i))
    /\ [][\A i \in Inst :
             /\ (stopPc[i] = "waiting" /\ stopPc'[i] = "timeout") => stopExpired'[i]
             /\ (stopPc[i] = "waiting" /\ stopPc'[i] \notin {"waiting", "timeout"}) =>
                   AllWorkersDone(i)
             /\ (~StopReturned(i) /\ stopPc'[i] = "ok") => AllWorkersDone(i)
         ]_vars

\* Stop has returned the timeout error while a handler of the instance, called once,
\* has not returned and the context given to Start is live.
C40_Witness ==
    \E i \in Inst, j \in JobIds, sp \in BOOLEAN :
        /\ stopPc[i] = "timeout" /\ stopExpired[i] /\ ~ctxDone[i]
        /\ loops[i][InHandler(j, sp)] = 1 /\ invoked[j] = 1
        /\ ~AllWorkersDone(i)

====
